---- MODULE Spec2Model ----
(***************************************************************************)
(* PITvolut: Revolut brokerage statement -> dividend records for PIT-38.   *)
(*                                                                         *)
(* The module models                                                       *)
(*   - pitvolut/core/models.py        DividendTransaction, RevolutStatement*)
(*   - pitvolut/core/pdf_processor.py PitvolutPDFProcessor                 *)
(*   - pitvolut/__main__.py           main                                 *)
(*                                                                         *)
(* Text is modelled as tuples of one-character strings, decimals as a      *)
(* coefficient and a number of fraction digits (the value is c / 10^e), a  *)
(* date token as the tuple of its words and blanks.  The PDF text is a     *)
(* sequence of blocks; a block either matches transaction_pattern (and     *)
(* carries the twelve captured groups) or does not.                        *)
(***************************************************************************)
EXTENDS Integers, Sequences, FiniteSets, TLC

VARIABLES
    pc,            \* position of main() / PitvolutPDFProcessor.process()
    pdf,           \* the document behind pdf_path: exists, readable, meta, text
    raw_text,      \* process(): local raw_text, NoText before extraction
    metadata,      \* process(): local metadata, the set of keys that matched
    matches,       \* parse_transactions(): the iterator re.finditer returned
    idx,           \* parse_transactions(): number of matches consumed
    transactions,  \* parse_transactions(): the list being built
    statement,     \* <<>> or <<s>>: the RevolutStatement process() returned
    exception,     \* "" or the exception that left the callee
    diagnostics,   \* what the except branch of the loop printed (raw matches)
    attempts,      \* history: per consumed match, the strptime calls made
    stages,        \* history: the methods of the processor entered, in order
    active,        \* index of the record a method is executing on, 0 if none
    tpc,           \* position inside DividendTransaction.process_transaction
    classified,    \* history: determine_transaction_type ran in this pass
    runs,          \* history: per record, completed process_transaction calls
    calls,         \* number of record methods invoked by the statement's user
    token,         \* standardize_date: the current token
    token_orig,    \* standardize_date: the token first given
    token_calls    \* standardize_date: number of applications

vars == << pc, pdf, raw_text, metadata, matches, idx, transactions, statement,
           exception, diagnostics, attempts, stages, active, tpc, classified,
           runs, calls, token, token_orig, token_calls >>

pipeVars == << pc, pdf, raw_text, metadata, matches, idx, transactions,
               exception, diagnostics, attempts, stages >>
recVars == << statement, active, tpc, classified, runs, calls >>
dateVars == << token, token_orig, token_calls >>

---------------------------------------------------------------------------
(* Bounds of the model.                                                    *)

\* longest text (in blocks) whose dates vary
MaxBlocks == 3
\* longest text (in blocks) whose names and amounts vary
MaxRecs == 2
\* record methods a user of the statement invokes
MaxCalls == 3
\* applications of standardize_date to one token
MaxDateCalls == 2

---------------------------------------------------------------------------
(* Text.                                                                   *)

SP == " "

UpperCase == << "A", "B", "C", "D", "E", "F", "G", "H", "I", "J", "K", "L", "M",
                "N", "O", "P", "Q", "R", "S", "T", "U", "V", "W", "X", "Y", "Z" >>
LowerCase == << "a", "b", "c", "d", "e", "f", "g", "h", "i", "j", "k", "l", "m",
                "n", "o", "p", "q", "r", "s", "t", "u", "v", "w", "x", "y", "z" >>

\* str.lower() on one character
LowerChar(c) ==
    IF \E i \in 1..Len(UpperCase) : UpperCase[i] = c
    THEN LowerCase[CHOOSE i \in 1..Len(UpperCase) : UpperCase[i] = c]
    ELSE c

\* str.lower()
Lower(s) == [i \in 1..Len(s) |-> LowerChar(s[i])]

\* sub in s
Contains(sub, s) ==
    \E k \in 0..(Len(s) - Len(sub)) :
        \A i \in 1..Len(sub) : s[k + i] = sub[i]

\* str.strip()
RECURSIVE LStrip(_)
LStrip(s) == IF s # <<>> /\ Head(s) = SP THEN LStrip(Tail(s)) ELSE s
RECURSIVE RStrip(_)
RStrip(s) ==
    IF s # <<>> /\ s[Len(s)] = SP THEN RStrip(SubSeq(s, 1, Len(s) - 1)) ELSE s
Strip(s) == RStrip(LStrip(s))

Dividend == << "d", "i", "v", "i", "d", "e", "n", "d" >>

---------------------------------------------------------------------------
(* decimal.Decimal: [c |-> coefficient, e |-> fraction digits].            *)

RECURSIVE Pow10(_)
Pow10(n) == IF n = 0 THEN 1 ELSE 10 * Pow10(n - 1)

Digits == << "0", "1", "2", "3", "4", "5", "6", "7", "8", "9" >>
DigitVal(ch) == (CHOOSE i \in 1..10 : Digits[i] = ch) - 1

RECURSIVE IntOf(_)
IntOf(s) ==
    IF s = <<>> THEN 0
    ELSE 10 * IntOf(SubSeq(s, 1, Len(s) - 1)) + DigitVal(s[Len(s)])

\* Decimal("123.45"), Decimal("15")
DecimalOf(s) ==
    IF \E k \in 1..Len(s) : s[k] = "."
    THEN LET k == CHOOSE j \in 1..Len(s) : s[j] = "."
         IN  [c |-> IntOf(SubSeq(s, 1, k - 1) \o SubSeq(s, k + 1, Len(s))),
              e |-> Len(s) - k]
    ELSE [c |-> IntOf(s), e |-> 0]

Max(a, b) == IF a >= b THEN a ELSE b

\* Decimal.__mul__: exact, the exponents add
DecMul(a, b) == [c |-> a.c * b.c, e |-> a.e + b.e]

\* Decimal.__sub__: exact, at the finer of the two exponents
DecSub(a, b) ==
    LET e == Max(a.e, b.e)
    IN  [c |-> a.c * Pow10(e - a.e) - b.c * Pow10(e - b.e), e |-> e]

\* a < b on decimals
DecLess(a, b) == a.c * Pow10(b.e) < b.c * Pow10(a.e)

\* max(a, b) of two decimals: b only when it is strictly greater
DecMax(a, b) == IF DecLess(a, b) THEN b ELSE a

\* Decimal("0.00"), the default of gross_tax and tax_to_pay_pln
Zero00 == [c |-> 0, e |-> 2]

---------------------------------------------------------------------------
(* Dates.  A date token is the tuple of its words and blanks.              *)

ShortMonths == << "Jan", "Feb", "Mar", "Apr", "May", "Jun",
                  "Jul", "Aug", "Sep", "Oct", "Nov", "Dec" >>
FullMonths == << "January", "February", "March", "April", "May", "June", "July",
                 "August", "September", "October", "November", "December" >>


\* month_mapping with "Sept." mapped to "Sept" (a key of the table)
month_mapping_Typo ==
    [w \in { "Sept", "Sept.", "March", "April", "June", "July", "August",
             "October", "November", "December" } |->
        CASE w = "Sept" -> "Sep"
          [] w = "Sept." -> "Sept"
          [] w = "March" -> "Mar"
          [] w = "April" -> "Apr"
          [] w = "June" -> "Jun"
          [] w = "July" -> "Jul"
          [] w = "August" -> "Aug"
          [] w = "October" -> "Oct"
          [] w = "November" -> "Nov"
          [] w = "December" -> "Dec"]

\* standardize_date: month_mapping
month_mapping ==
    [w \in { "Sept", "Sept.", "March", "April", "June", "July", "August",
             "October", "November", "December" } |->
        CASE w = "Sept" -> "Sep"
          [] w = "Sept." -> "Sep"
          [] w = "March" -> "Mar"
          [] w = "April" -> "Apr"
          [] w = "June" -> "Jun"
          [] w = "July" -> "Jul"
          [] w = "August" -> "Aug"
          [] w = "October" -> "Oct"
          [] w = "November" -> "Nov"
          [] w = "December" -> "Dec"]

\* str.split(): the words, runs of blanks dropped
Split(s) == SelectSeq(s, LAMBDA t : t # SP)

\* " ".join(parts)
RECURSIVE Join(_)
Join(parts) ==
    IF Len(parts) <= 1 THEN parts
    ELSE << Head(parts), SP >> \o Join(Tail(parts))

\* PitvolutPDFProcessor.standardize_date
standardize_date(s) ==
    LET parts == Split(s)
    IN  IF Len(parts) = 3 /\ parts[2] \in DOMAIN month_mapping
        THEN Join([parts EXCEPT ![2] = month_mapping[parts[2]]])
        ELSE s

\* int() of the day and year words the model uses
IntWords ==
    [w \in { "1", "29", "31", "32", "2023", "2024" } |->
        CASE w = "1" -> 1
          [] w = "29" -> 29
          [] w = "31" -> 31
          [] w = "32" -> 32
          [] w = "2023" -> 2023
          [] w = "2024" -> 2024]

IsLeap(y) == (y % 4 = 0 /\ y % 100 # 0) \/ y % 400 = 0

\* calendar.monthrange(y, m)[1]
DaysIn(m, y) ==
    IF m = 2 THEN (IF IsLeap(y) THEN 29 ELSE 28)
    ELSE IF m \in { 4, 6, 9, 11 } THEN 30 ELSE 31

FmtShort == "%d %b %Y"
FmtFull == "%d %B %Y"

NoDate == [year |-> 0, month |-> 0, day |-> 0]

\* datetime.strptime(s, fmt) for the two formats the builder uses:
\* ok = FALSE stands for ValueError.  Month names are compared as written
\* (strptime ignores their case; the tokens of the model are capitalised).
Strptime(s, fmt) ==
    LET parts == Split(s)
        names == IF fmt = FmtShort THEN ShortMonths ELSE FullMonths
    IN  IF /\ Len(parts) = 3
           /\ parts[1] \in DOMAIN IntWords
           /\ parts[3] \in DOMAIN IntWords
           /\ \E m \in 1..12 : names[m] = parts[2]
        THEN LET d == IntWords[parts[1]]
                 y == IntWords[parts[3]]
                 m == CHOOSE k \in 1..12 : names[k] = parts[2]
             IN  IF d >= 1 /\ d <= 31 /\ y >= 1 /\ d <= DaysIn(m, y)
                 THEN [ok |-> TRUE, date |-> [year |-> y, month |-> m, day |-> d]]
                 ELSE [ok |-> FALSE, date |-> NoDate]
        ELSE [ok |-> FALSE, date |-> NoDate]

---------------------------------------------------------------------------
(* The input: blocks of the PDF text.                                      *)

NameDividend == << "A", "C", "M", "E", " ", "D", "i", "v", "i", "d", "e", "n", "d" >>
NameUpper == << "A", "C", "M", "E", " ", "D", "I", "V", "I", "D", "E", "N", "D" >>
NameBuy == << "A", "C", "M", "E", " ", "B", "u", "y" >>

Amt100 == << "1", "0", "0", ".", "0", "0" >>
Amt001 == << "0", ".", "0", "1" >>
Amt15 == << "1", "5", ".", "0", "0" >>
Amt25 == << "2", "5", ".", "0", "0" >>

\* group 10 of a match whose optional PLN tax figure is absent (None)
NoneGroup == << "None" >>

\* one occurrence of transaction_pattern with its twelve groups
MatchBlock(d, n, g, t) ==
    [ matched |-> TRUE, date_str |-> d, security_name |-> n,
      symbol |-> << "A", "C", "M", "E" >>, isin |-> << "U", "S", "0", "0", "0", "1" >>, country |-> << "U", "S" >>,
      gross_usd |-> << "2", "5", ".", "0", "0" >>, gross_pln |-> g, rate |-> << "4", ".", "0", "0", "0", "0" >>,
      tax_usd |-> << "3", ".", "7", "5" >>, tax_pln |-> t,
      net_usd |-> << "2", "1", ".", "2", "5" >>, net_pln |-> << "8", "5", ".", "0", "0" >> ]

\* a stretch of text transaction_pattern does not match
Junk ==
    [ matched |-> FALSE, date_str |-> <<>>, security_name |-> <<>>,
      symbol |-> <<>>, isin |-> <<>>, country |-> <<>>,
      gross_usd |-> <<>>, gross_pln |-> <<>>, rate |-> <<>>,
      tax_usd |-> <<>>, tax_pln |-> <<>>, net_usd |-> <<>>, net_pln |-> <<>> ]

Token(d, m, y) == << d, SP, m, SP, y >>

DateSep == Token("1", "Sep", "2024")
DateSeptDot == Token("1", "Sept.", "2024")
DateSeptember == Token("1", "September", "2024")
DateMarch == Token("1", "March", "2024")
DateFoo == Token("1", "Foo", "2024")
DateSept31 == Token("31", "Sept", "2024")

\* blocks whose date token varies
DateBlocks ==
    { MatchBlock(d, NameDividend, Amt100, Amt15) :
        d \in { DateSep, DateSeptDot, DateSeptember, DateMarch, DateFoo,
                DateSept31 } } \cup { Junk }

\* blocks whose security name and PLN amounts vary
AmountBlocks ==
    { MatchBlock(DateSep, NameDividend, Amt100, Amt15),
      MatchBlock(DateSep, NameDividend, Amt100, NoneGroup),
      MatchBlock(DateSep, NameUpper, Amt100, Amt25),
      MatchBlock(DateSep, NameDividend, Amt001, NoneGroup),
      MatchBlock(DateSep, NameBuy, Amt100, Amt15),
      MatchBlock(DateSep, NameBuy, Amt001, NoneGroup) }

TextsUpTo(S, n) == UNION { [1..k -> S] : k \in 0..n }

Texts == TextsUpTo(DateBlocks, MaxBlocks) \cup TextsUpTo(AmountBlocks, MaxRecs)

MetaKeys == { "period", "generation_date", "account_holder", "summary_text" }

\* the documents main() may be given
Pdfs ==
    { [exists |-> FALSE, readable |-> FALSE, meta |-> {}, text |-> <<>>],
      [exists |-> TRUE, readable |-> FALSE, meta |-> {}, text |-> <<>>] }
    \cup { [exists |-> TRUE, readable |-> TRUE, meta |-> m, text |-> t] :
             m \in { {}, { "period" }, MetaKeys }, t \in Texts }

\* the text tokens standardize_date is applied to
DateTokens ==
    LET words == { ShortMonths[i] : i \in 1..12 } \cup { FullMonths[i] : i \in 1..12 }
                 \cup { "Sept", "Sept.", "Foo" }
    IN  { Token(d, m, "2024") : d \in { "1", "31" }, m \in words }
        \cup { << "1", SP, SP, m, SP, "2024" >> : m \in words }
        \cup { << "1", SP, "Sept" >>, << "1", SP, "Sept", SP, "2024", SP, "x" >> }

---------------------------------------------------------------------------
(* models.py: DividendTransaction.                                         *)

\* tax_rate = Decimal("0.19")
tax_rate == [c |-> 19, e |-> 2]

\* DividendTransaction(**kw): the given fields and the three defaults
DividendTransaction(kw) ==
    [ date |-> kw.date,
      security_name |-> kw.security_name,
      symbol |-> kw.symbol,
      isin |-> kw.isin,
      country |-> kw.country,
      gross_amount_usd |-> kw.gross_amount_usd,
      gross_amount_pln |-> kw.gross_amount_pln,
      gross_tax |-> Zero00,
      exchange_rate |-> kw.exchange_rate,
      withholding_tax_usd |-> kw.withholding_tax_usd,
      withholding_tax_pln |-> kw.withholding_tax_pln,
      net_amount_usd |-> kw.net_amount_usd,
      net_amount_pln |-> kw.net_amount_pln,
      raw_text |-> kw.raw_text,
      transaction_type |-> <<>>,
      tax_to_pay_pln |-> Zero00 ]

TypeDividend == << "d", "i", "v", "i", "d", "e", "n", "d" >>
TypeOther == << "o", "t", "h", "e", "r" >>

\* DividendTransaction.determine_transaction_type
determine_transaction_type(self) ==
    IF Contains(Dividend, Lower(self.security_name))
    THEN [self EXCEPT !.transaction_type = TypeDividend]
    ELSE [self EXCEPT !.transaction_type = TypeOther]


\* calculate_tax that does not credit the tax withheld
calculate_tax_NoCredit(self) ==
    LET gross_tax == DecMul(self.gross_amount_pln, tax_rate)
    IN  [self EXCEPT
            !.gross_tax = gross_tax,
            !.tax_to_pay_pln = DecMax(gross_tax, Zero00)]

\* calculate_tax without the floor at zero
calculate_tax_NoFloor(self) ==
    LET gross_tax == DecMul(self.gross_amount_pln, tax_rate)
    IN  [self EXCEPT
            !.gross_tax = gross_tax,
            !.tax_to_pay_pln = DecSub(gross_tax, self.withholding_tax_pln)]

\* calculate_tax that adds to the tax to pay it finds in the record
calculate_tax_Accumulate(self) ==
    LET gross_tax == DecMul(self.gross_amount_pln, tax_rate)
    IN  [self EXCEPT
            !.gross_tax = gross_tax,
            !.tax_to_pay_pln =
                DecSub(DecMax(DecSub(gross_tax, self.withholding_tax_pln), Zero00),
                       DecSub(Zero00, self.tax_to_pay_pln))]

\* DividendTransaction.calculate_tax
calculate_tax(self) ==
    LET gross_tax == DecMul(self.gross_amount_pln, tax_rate)
    IN  [self EXCEPT
            !.gross_tax = gross_tax,
            !.tax_to_pay_pln = DecMax(DecSub(gross_tax, self.withholding_tax_pln),
                                      Zero00)]

---------------------------------------------------------------------------
(* pdf_processor.py: the record builder of parse_transactions.             *)

\* lines 122-124: the optional tax_pln group
TaxPlnOrDefault(tax_pln) ==
    IF tax_pln = NoneGroup \/ tax_pln = <<>> THEN << "0", ".", "0", "0" >> ELSE tax_pln


\* the two strptime calls with the fallback given the standardized token
ParseDate_FallbackStandardized(date_str) ==
    LET standardized_date == standardize_date(date_str)
        first == Strptime(standardized_date, FmtShort)
        second == Strptime(standardized_date, FmtFull)
        a1 == [fmt |-> FmtShort, arg |-> standardized_date, ok |-> first.ok]
        a2 == [fmt |-> FmtFull, arg |-> standardized_date, ok |-> second.ok]
    IN  IF first.ok
        THEN [ok |-> TRUE, date |-> first.date, attempts |-> << a1 >>]
        ELSE [ok |-> second.ok, date |-> second.date, attempts |-> << a1, a2 >>]

\* lines 126-131: the two strptime calls, in the order made
ParseDate(date_str) ==
    LET standardized_date == standardize_date(date_str)
        first == Strptime(standardized_date, FmtShort)
        second == Strptime(date_str, FmtFull)
        a1 == [fmt |-> FmtShort, arg |-> standardized_date, ok |-> first.ok]
        a2 == [fmt |-> FmtFull, arg |-> date_str, ok |-> second.ok]
    IN  IF first.ok
        THEN [ok |-> TRUE, date |-> first.date, attempts |-> << a1 >>]
        ELSE [ok |-> second.ok, date |-> second.date, attempts |-> << a1, a2 >>]

\* the body of the try block for one match (lines 117-148):
\* ok = FALSE stands for an exception caught by the except branch
BuildRecord(m) ==
    LET d == ParseDate(m.date_str)
    IN  [ ok |-> d.ok,
          attempts |-> d.attempts,
          rec |-> DividendTransaction(
                      [ date |-> d.date,
                        security_name |-> Strip(m.security_name),
                        symbol |-> Strip(m.symbol),
                        isin |-> Strip(m.isin),
                        country |-> Strip(m.country),
                        gross_amount_usd |-> DecimalOf(m.gross_usd),
                        gross_amount_pln |-> DecimalOf(m.gross_pln),
                        exchange_rate |-> DecimalOf(m.rate),
                        withholding_tax_usd |-> DecimalOf(m.tax_usd),
                        withholding_tax_pln |-> DecimalOf(TaxPlnOrDefault(m.tax_pln)),
                        net_amount_usd |-> DecimalOf(m.net_usd),
                        net_amount_pln |-> DecimalOf(m.net_pln),
                        raw_text |-> m ]) ]

\* re.finditer(transaction_pattern, text): the matches, in text order
finditer(text) == SelectSeq(text, LAMBDA b : b.matched)

\* one iteration of the for loop (lines 115-151) on the state of the loop
LoopStep(st, m) ==
    LET r == BuildRecord(m)
    IN  [ transactions |-> IF r.ok THEN Append(st.transactions, r.rec)
                           ELSE st.transactions,
          diagnostics |-> IF r.ok THEN st.diagnostics
                          ELSE Append(st.diagnostics, m),
          attempts |-> Append(st.attempts, r.attempts) ]

\* PitvolutPDFProcessor.parse_transactions, start to end
RECURSIVE LoopFrom(_, _)
LoopFrom(st, ms) ==
    IF ms = <<>> THEN st ELSE LoopFrom(LoopStep(st, Head(ms)), Tail(ms))
parse_transactions(text) ==
    LoopFrom([transactions |-> <<>>, diagnostics |-> <<>>, attempts |-> <<>>],
             finditer(text))

\* PitvolutPDFProcessor.extract_metadata: the keys whose pattern matched
extract_metadata(text) == [k \in text.meta |-> << k, "capture" >>]

\* metadata.get(key, '')
Get(md, key) == IF key \in DOMAIN md THEN md[key] ELSE <<>>

\* RevolutStatement(...) as process() builds it
RevolutStatement(md, txs) ==
    [ period |-> Get(md, "period"),
      generation_date |-> Get(md, "generation_date"),
      account_holder |-> Get(md, "account_holder"),
      summary_text |-> Get(md, "summary_text"),
      transactions |-> txs ]

NoText == [meta |-> {}, blocks |-> <<>>]
NoMetadata == [k \in {} |-> <<>>]

---------------------------------------------------------------------------
(* __main__.py main() and PitvolutPDFProcessor.process(), step by step.    *)
(* The --debug branch of main() (debug_print_json) is not modelled.        *)

Init ==
    /\ pc = "main"
    /\ pdf \in Pdfs
    /\ raw_text = NoText
    /\ metadata = NoMetadata
    /\ matches = <<>>
    /\ idx = 0
    /\ transactions = <<>>
    /\ statement = <<>>
    /\ exception = ""
    /\ diagnostics = <<>>
    /\ attempts = <<>>
    /\ stages = <<>>
    /\ active = 0
    /\ tpc = "idle"
    /\ classified = FALSE
    /\ runs = <<>>
    /\ calls = 0
    /\ token = <<>>
    /\ token_orig = <<>>
    /\ token_calls = 0


\* __init__ without the check that the path exists
Construct_NoCheck ==
    /\ pc = "main"
    /\ stages' = Append(stages, "__init__")
    /\ pc' = "process"
    /\ UNCHANGED << pdf, raw_text, metadata, matches, idx, transactions,
                    exception, diagnostics, attempts >>
    /\ UNCHANGED recVars
    /\ UNCHANGED dateVars

\* PitvolutPDFProcessor.__init__, called by main()
Construct ==
    /\ pc = "main"
    /\ stages' = Append(stages, "__init__")
    /\ IF ~pdf.exists
       THEN /\ exception' = "FileNotFoundError"
            /\ pc' = "except"
       ELSE /\ pc' = "process"
            /\ UNCHANGED exception
    /\ UNCHANGED << pdf, raw_text, metadata, matches, idx, transactions,
                    diagnostics, attempts >>
    /\ UNCHANGED recVars
    /\ UNCHANGED dateVars

\* process(): raw_text = self.extract_raw_text()
ExtractRawText ==
    /\ pc = "process"
    /\ stages' = Append(stages, "extract_raw_text")
    /\ IF pdf.exists /\ pdf.readable
       THEN /\ raw_text' = [meta |-> pdf.meta, blocks |-> pdf.text]
            /\ pc' = "extracted"
            /\ UNCHANGED exception
       ELSE /\ exception' = IF pdf.exists THEN "PdfReadError" ELSE "FileNotFoundError"
            /\ pc' = "except"
            /\ UNCHANGED raw_text
    /\ UNCHANGED << pdf, metadata, matches, idx, transactions, diagnostics,
                    attempts >>
    /\ UNCHANGED recVars
    /\ UNCHANGED dateVars

\* process(): metadata = self.extract_metadata(raw_text)
ExtractMetadata ==
    /\ pc = "extracted"
    /\ stages' = Append(stages, "extract_metadata")
    /\ metadata' = extract_metadata(raw_text)
    /\ pc' = "metadata"
    /\ UNCHANGED << pdf, raw_text, matches, idx, transactions, exception,
                    diagnostics, attempts >>
    /\ UNCHANGED recVars
    /\ UNCHANGED dateVars

\* parse_transactions(): transactions = [], matches = re.finditer(...)
ParseStart ==
    /\ pc = "metadata"
    /\ stages' = Append(stages, "parse_transactions")
    /\ transactions' = <<>>
    /\ matches' = finditer(raw_text.blocks)
    /\ idx' = 0
    /\ pc' = "loop"
    /\ UNCHANGED << pdf, raw_text, metadata, exception, diagnostics, attempts >>
    /\ UNCHANGED recVars
    /\ UNCHANGED dateVars


\* one iteration of the for loop without the try: the exception leaves the loop
ParseStep_Raises ==
    /\ pc = "loop"
    /\ idx < Len(matches)
    /\ LET r == BuildRecord(matches[idx + 1])
       IN  /\ transactions' = IF r.ok THEN Append(transactions, r.rec)
                              ELSE transactions
           /\ attempts' = Append(attempts, r.attempts)
           /\ exception' = IF r.ok THEN exception ELSE "ValueError"
           /\ pc' = IF r.ok THEN pc ELSE "except"
    /\ idx' = idx + 1
    /\ UNCHANGED << pdf, raw_text, metadata, matches, diagnostics, stages >>
    /\ UNCHANGED recVars
    /\ UNCHANGED dateVars

\* parse_transactions(): one iteration of the for loop, try and except
ParseStep ==
    /\ pc = "loop"
    /\ idx < Len(matches)
    /\ LET st == LoopStep([transactions |-> transactions,
                           diagnostics |-> diagnostics,
                           attempts |-> attempts], matches[idx + 1])
       IN  /\ transactions' = st.transactions
           /\ diagnostics' = st.diagnostics
           /\ attempts' = st.attempts
    /\ idx' = idx + 1
    /\ UNCHANGED << pc, pdf, raw_text, metadata, matches, exception, stages >>
    /\ UNCHANGED recVars
    /\ UNCHANGED dateVars

\* parse_transactions(): the iterator is exhausted, return transactions
ParseReturn ==
    /\ pc = "loop"
    /\ idx = Len(matches)
    /\ pc' = "parsed"
    /\ UNCHANGED << pdf, raw_text, metadata, matches, idx, transactions,
                    exception, diagnostics, attempts, stages >>
    /\ UNCHANGED recVars
    /\ UNCHANGED dateVars

\* process(): return RevolutStatement(...); the locals leave scope
Aggregate ==
    /\ pc = "parsed"
    /\ stages' = Append(stages, "RevolutStatement")
    /\ statement' = << RevolutStatement(metadata, transactions) >>
    /\ runs' = [i \in 1..Len(transactions) |-> 0]
    /\ raw_text' = NoText
    /\ metadata' = NoMetadata
    /\ matches' = <<>>
    /\ idx' = 0
    /\ transactions' = <<>>
    /\ pc' = "returned"
    /\ UNCHANGED << pdf, exception, diagnostics, attempts, active, tpc,
                    classified, calls >>
    /\ UNCHANGED dateVars

\* main(): the loop over statement.transactions and the summary printed
MainReport ==
    /\ pc = "returned"
    /\ active = 0
    /\ pc' = "done"
    /\ UNCHANGED << pdf, raw_text, metadata, matches, idx, transactions,
                    exception, diagnostics, attempts, stages >>
    /\ UNCHANGED recVars
    /\ UNCHANGED dateVars

\* main(): except Exception as e: print(...)
MainExcept ==
    /\ pc = "except"
    /\ pc' = "done"
    /\ UNCHANGED << pdf, raw_text, metadata, matches, idx, transactions,
                    exception, diagnostics, attempts, stages >>
    /\ UNCHANGED recVars
    /\ UNCHANGED dateVars

Next ==
    \/ Construct
    \/ ExtractRawText
    \/ ExtractMetadata
    \/ ParseStart
    \/ ParseStep
    \/ ParseReturn
    \/ Aggregate
    \/ MainReport
    \/ MainExcept

Spec == Init /\ [][Next]_vars

---------------------------------------------------------------------------
(* A user of the returned statement invoking the methods of its records.   *)
(* One method runs at a time (the program is single-threaded).             *)

Records == statement[1].transactions

\* the statement with record i replaced by r
WithRecord(i, r) == << [statement[1] EXCEPT !.transactions[i] = r] >>

\* the state in which process() has just returned the statement of a text
InitReturned ==
    /\ pc = "returned"
    /\ pdf \in { [exists |-> TRUE, readable |-> TRUE, meta |-> MetaKeys, text |-> t] :
                   t \in TextsUpTo(AmountBlocks, MaxRecs) }
    /\ raw_text = NoText
    /\ metadata = NoMetadata
    /\ matches = <<>>
    /\ idx = 0
    /\ transactions = <<>>
    /\ LET parsed == parse_transactions(pdf.text)
       IN  /\ statement = << RevolutStatement(
                                extract_metadata([meta |-> pdf.meta,
                                                  blocks |-> pdf.text]),
                                parsed.transactions) >>
           /\ diagnostics = parsed.diagnostics
           /\ attempts = parsed.attempts
           /\ runs = [i \in 1..Len(parsed.transactions) |-> 0]
    /\ exception = ""
    /\ stages = << "__init__", "extract_raw_text", "extract_metadata",
                   "parse_transactions", "RevolutStatement" >>
    /\ active = 0
    /\ tpc = "idle"
    /\ classified = FALSE
    /\ calls = 0
    /\ token = <<>>
    /\ token_orig = <<>>
    /\ token_calls = 0


\* process_transaction that calls calculate_tax first
PT_Call_CalculateFirst(i) ==
    /\ pc = "returned"
    /\ active = 0
    /\ calls < MaxCalls
    /\ active' = i
    /\ tpc' = "calculate"
    /\ classified' = FALSE
    /\ calls' = calls + 1
    /\ UNCHANGED << statement, runs >>
    /\ UNCHANGED pipeVars
    /\ UNCHANGED dateVars

\* a call of record.process_transaction() begins
PT_Call(i) ==
    /\ pc = "returned"
    /\ active = 0
    /\ calls < MaxCalls
    /\ active' = i
    /\ tpc' = "determine"
    /\ classified' = FALSE
    /\ calls' = calls + 1
    /\ UNCHANGED << statement, runs >>
    /\ UNCHANGED pipeVars
    /\ UNCHANGED dateVars

\* process_transaction: self.determine_transaction_type()
PT_Determine ==
    /\ active # 0
    /\ tpc = "determine"
    /\ statement' = WithRecord(active, determine_transaction_type(Records[active]))
    /\ classified' = TRUE
    /\ tpc' = "test"
    /\ UNCHANGED << active, runs, calls >>
    /\ UNCHANGED pipeVars
    /\ UNCHANGED dateVars


\* process_transaction without the test of the category
PT_Test_Always ==
    /\ active # 0
    /\ tpc = "test"
    /\ tpc' = "calculate"
    /\ UNCHANGED << statement, active, classified, runs, calls >>
    /\ UNCHANGED pipeVars
    /\ UNCHANGED dateVars

\* process_transaction: if self.transaction_type == "dividend"
PT_Test ==
    /\ active # 0
    /\ tpc = "test"
    /\ IF Records[active].transaction_type = TypeDividend
       THEN /\ tpc' = "calculate"
            /\ UNCHANGED << active, runs >>
       ELSE /\ tpc' = "idle"
            /\ active' = 0
            /\ runs' = [runs EXCEPT ![active] = @ + 1]
    /\ UNCHANGED << statement, classified, calls >>
    /\ UNCHANGED pipeVars
    /\ UNCHANGED dateVars

\* process_transaction: self.calculate_tax(), then return
PT_Calculate ==
    /\ active # 0
    /\ tpc = "calculate"
    /\ statement' = WithRecord(active, calculate_tax(Records[active]))
    /\ tpc' = "idle"
    /\ active' = 0
    /\ runs' = [runs EXCEPT ![active] = @ + 1]
    /\ UNCHANGED << classified, calls >>
    /\ UNCHANGED pipeVars
    /\ UNCHANGED dateVars

\* record.determine_transaction_type() called on its own
DetermineTransactionType(i) ==
    /\ pc = "returned"
    /\ active = 0
    /\ calls < MaxCalls
    /\ statement' = WithRecord(i, determine_transaction_type(Records[i]))
    /\ calls' = calls + 1
    /\ UNCHANGED << active, tpc, classified, runs >>
    /\ UNCHANGED pipeVars
    /\ UNCHANGED dateVars

\* record.calculate_tax() called on its own
CalculateTax(i) ==
    /\ pc = "returned"
    /\ active = 0
    /\ calls < MaxCalls
    /\ statement' = WithRecord(i, calculate_tax(Records[i]))
    /\ calls' = calls + 1
    /\ UNCHANGED << active, tpc, classified, runs >>
    /\ UNCHANGED pipeVars
    /\ UNCHANGED dateVars

ProcessTransaction ==
    \/ \E i \in 1..Len(Records) : PT_Call(i)
    \/ PT_Determine
    \/ PT_Test
    \/ PT_Calculate

\* the records go through process_transaction only
NextPass == ProcessTransaction

SpecPass == InitReturned /\ [][NextPass]_vars

\* the records go through any of their three methods
NextRecord ==
    \/ ProcessTransaction
    \/ \E i \in 1..Len(Records) : DetermineTransactionType(i)
    \/ \E i \in 1..Len(Records) : CalculateTax(i)

SpecRecord == InitReturned /\ [][NextRecord]_vars

---------------------------------------------------------------------------
(* standardize_date applied to a token, and again to its result.           *)

InitDate ==
    /\ pc = "main"
    /\ pdf = [exists |-> FALSE, readable |-> FALSE, meta |-> {}, text |-> <<>>]
    /\ raw_text = NoText
    /\ metadata = NoMetadata
    /\ matches = <<>>
    /\ idx = 0
    /\ transactions = <<>>
    /\ statement = <<>>
    /\ exception = ""
    /\ diagnostics = <<>>
    /\ attempts = <<>>
    /\ stages = <<>>
    /\ active = 0
    /\ tpc = "idle"
    /\ classified = FALSE
    /\ runs = <<>>
    /\ calls = 0
    /\ token \in DateTokens
    /\ token_orig = token
    /\ token_calls = 0

StandardizeDate ==
    /\ token_calls < MaxDateCalls
    /\ token' = standardize_date(token)
    /\ token_calls' = token_calls + 1
    /\ UNCHANGED token_orig
    /\ UNCHANGED pipeVars
    /\ UNCHANGED recVars

NextDate == StandardizeDate

SpecDate == InitDate /\ [][NextDate]_vars

---------------------------------------------------------------------------
(* Properties.                                                             *)

Range(f) == { f[i] : i \in DOMAIN f }

\* the value of a decimal in ten-thousandths
E4(d) == d.c * Pow10(4 - d.e)

\* the value, in hundredths, of the PLN figures the blocks carry
PlnCents(s) ==
    CASE s = Amt100 -> 10000
      [] s = Amt001 -> 1
      [] s = Amt15 -> 1500
      [] s = Amt25 -> 2500
      [] s = NoneGroup -> 0

Derived(r) == << r.transaction_type, r.gross_tax, r.tax_to_pay_pln >>

Inputs(r) ==
    << r.date, r.security_name, r.symbol, r.isin, r.country, r.gross_amount_usd,
       r.gross_amount_pln, r.exchange_rate, r.withholding_tax_usd,
       r.withholding_tax_pln, r.net_amount_usd, r.net_amount_pln, r.raw_text >>

RecordIds == IF statement = <<>> THEN {} ELSE 1..Len(Records)

\* the date tokens of DateBlocks that Python parses (by either format)
GoodDates == { DateSep, DateSeptDot, DateSeptember, DateMarch }
WellFormed(b) == b.matched /\ b.date_str \in GoodDates
Malformed(b) == b.matched /\ b.date_str \notin GoodDates

\* C1: every record of the statement process() returned has been through
\* process_transaction exactly once before a consumer of the statement sees it.
C1_PassRanOnce ==
    pc \in { "returned", "done" } =>
        \A i \in RecordIds :
            /\ runs[i] = 1
            /\ Records[i].transaction_type \in { TypeDividend, TypeOther }

\* C2: a record whose category is dividend has gross_tax = gross_amount_pln * 0.19
\* and tax_to_pay_pln = max(gross_amount_pln * 0.19 - withholding_tax_pln, 0),
\* withholding_tax_pln being the captured PLN tax, or 0.00 when it is absent.
C2_DividendTax ==
    \A i \in RecordIds :
        LET r == Records[i]
            gross == PlnCents(r.raw_text.gross_pln)
            withheld == PlnCents(r.raw_text.tax_pln)
        IN  (active # i /\ r.transaction_type = TypeDividend) =>
                /\ E4(r.withholding_tax_pln) = withheld * 100
                /\ E4(r.gross_tax) = gross * 19
                /\ E4(r.tax_to_pay_pln) = Max(gross * 19 - withheld * 100, 0)

C2_Witness ==
    \E i, j \in RecordIds :
        /\ active = 0
        /\ Records[i].transaction_type = TypeDividend
        /\ Records[i].raw_text.gross_pln = Amt100
        /\ Records[i].raw_text.tax_pln = Amt15
        /\ E4(Records[i].gross_tax) = 190000
        /\ E4(Records[i].tax_to_pay_pln) = 40000
        /\ Records[j].transaction_type = TypeDividend
        /\ Records[j].raw_text.tax_pln = NoneGroup
        /\ Records[j].withholding_tax_pln = Zero00
        /\ E4(Records[j].tax_to_pay_pln) = 190000

\* C3: a record whose category is other (its name does not contain "dividend",
\* whatever the case) has gross_tax = 0 and tax_to_pay_pln = 0, in every state
\* process_transaction calls lead to.
C3_OtherIsZero ==
    \A i \in RecordIds :
        LET r == Records[i]
        IN  /\ r.transaction_type = TypeOther =>
                (E4(r.gross_tax) = 0 /\ E4(r.tax_to_pay_pln) = 0)
            /\ (runs[i] >= 1 /\ r.security_name = NameBuy) =>
                r.transaction_type = TypeOther
            /\ (runs[i] >= 1 /\ r.security_name \in { NameDividend, NameUpper }) =>
                r.transaction_type = TypeDividend

C3_Witness ==
    \E i \in RecordIds :
        /\ runs[i] >= 2
        /\ Records[i].security_name = NameBuy
        /\ Records[i].raw_text.gross_pln = Amt100
        /\ Records[i].transaction_type = TypeOther
        /\ Records[i].gross_tax = Zero00

\* C4: tax_to_pay_pln is never negative, whatever methods of the record ran.
C4_TaxToPayNonNegative ==
    \A i \in RecordIds : Records[i].tax_to_pay_pln.c >= 0

C4_Witness ==
    \E i \in RecordIds :
        /\ Records[i].raw_text.tax_pln = Amt25
        /\ E4(Records[i].gross_tax) = 190000
        /\ E4(Records[i].withholding_tax_pln) = 250000
        /\ E4(Records[i].tax_to_pay_pln) = 0

\* C5: parse_transactions returns one record per well-formed match, in text
\* order, prints one diagnostic per match that fails record building, and lets
\* no exception out of the loop; a text without matches gives the empty list.
C5_SkipMalformed ==
    /\ "parse_transactions" \in Range(stages) => exception = ""
    /\ pc = "parsed" =>
        /\ Len(transactions) = Len(SelectSeq(pdf.text, WellFormed))
        /\ \A k \in 1..Len(transactions) :
               transactions[k].raw_text = SelectSeq(pdf.text, WellFormed)[k]
        /\ diagnostics = SelectSeq(pdf.text, Malformed)
        /\ (\A k \in 1..Len(pdf.text) : ~pdf.text[k].matched) => transactions = <<>>

C5_Witness ==
    /\ pc = "parsed"
    /\ Len(pdf.text) = 3
    /\ WellFormed(pdf.text[1])
    /\ Malformed(pdf.text[2])
    /\ WellFormed(pdf.text[3])
    /\ pdf.text[1] # pdf.text[3]
    /\ Len(transactions) = 2
    /\ diagnostics = << pdf.text[2] >>
    /\ exception = ""

\* C6: process_transaction run again on a record leaves transaction_type,
\* gross_tax and tax_to_pay_pln as the first run left them, and two records
\* with equal input fields get equal derived fields.
C6_Idempotent ==
    [][ /\ \A i \in RecordIds :
              runs[i] >= 1 => Derived(Records'[i]) = Derived(Records[i])
        /\ \A i, j \in RecordIds :
              ( /\ runs'[i] >= 1
                /\ runs'[j] >= 1
                /\ Inputs(Records'[i]) = Inputs(Records'[j]) )
              => Derived(Records'[i]) = Derived(Records'[j]) ]_vars

C6_Witness ==
    \E i, j \in RecordIds :
        /\ i # j
        /\ runs[i] >= 2
        /\ runs[j] >= 1
        /\ Inputs(Records[i]) = Inputs(Records[j])
        /\ Records[i].transaction_type = TypeDividend
        /\ E4(Records[i].tax_to_pay_pln) = 40000

\* C7: standardize_date applied twice gives what it gives applied once; a token
\* whose month word is a canonical abbreviation or is not in the table comes
\* back unchanged; a known non-standard month word is replaced by its canonical
\* abbreviation, day and year untouched.
C7_StandardizeIdempotent ==
    [][ LET parts == Split(token_orig)
            out == Split(token')
            nonstandard == { "Sept", "Sept.", "March", "April", "June", "July",
                             "August", "October", "November", "December" }
        IN  /\ token_calls >= 1 => token' = token
            /\ (Len(parts) = 3 /\ parts[2] \notin nonstandard) => token' = token_orig
            /\ (Len(parts) = 3 /\ parts[2] \in nonstandard) =>
                  /\ Len(out) = 3
                  /\ out[1] = parts[1]
                  /\ out[3] = parts[3]
                  /\ out[2] \in Range(ShortMonths)
                  /\ Len(token') = 5
            /\ token_orig = Token("1", "Sept.", "2024") =>
                  token' = Token("1", "Sep", "2024") ]_vars

C7_Witness ==
    /\ token_calls = 2
    /\ token_orig = Token("1", "Sept.", "2024")
    /\ token = Token("1", "Sep", "2024")

\* C8: a missing file fails at construction, before extraction is attempted; a
\* failed extraction leaves process() before metadata extraction, parsing and
\* aggregation run; no statement is returned in either case.
C8_FatalBeforeStatement ==
    /\ ~pdf.exists =>
          /\ "extract_raw_text" \notin Range(stages)
          /\ pc # "main" => exception = "FileNotFoundError"
    /\ (pdf.exists /\ ~pdf.readable /\ "extract_raw_text" \in Range(stages)) =>
          exception = "PdfReadError"
    /\ exception # "" =>
          /\ pc \in { "except", "done" }
          /\ statement = <<>>
          /\ Range(stages) \subseteq { "__init__", "extract_raw_text" }
          /\ transactions = <<>>
          /\ metadata = NoMetadata
    /\ statement # <<>> =>
          /\ pdf.exists
          /\ pdf.readable
          /\ stages = << "__init__", "extract_raw_text", "extract_metadata",
                         "parse_transactions", "RevolutStatement" >>

C8_Witness ==
    /\ pc = "done"
    /\ pdf.exists
    /\ exception = "PdfReadError"
    /\ stages = << "__init__", "extract_raw_text" >>
    /\ statement = <<>>

\* C9: inside process_transaction, calculate_tax is invoked only after
\* determine_transaction_type has run in that call, and only when the category
\* it set is dividend.
C9_ClassifyBeforeCalculate ==
    /\ tpc = "calculate" =>
          /\ active \in RecordIds
          /\ classified
          /\ Records[active].transaction_type = TypeDividend
    /\ tpc = "test" => classified

C9_Witness ==
    /\ tpc = "calculate"
    /\ classified
    /\ runs[active] = 0
    /\ Records[active].transaction_type = TypeDividend
    /\ Records[active].gross_tax = Zero00

\* C10: the builder parses the normalized token with the short-month format
\* first; only when that fails it parses the original token with the
\* full-month format; when both fail the record is dropped with a diagnostic
\* and the loop goes on to the next match.
C10_TwoAttempts ==
    LET ms == finditer(pdf.text)
        failed == { k \in 1..Len(attempts) : \A n \in 1..Len(attempts[k]) : ~attempts[k][n].ok }
    IN  /\ \A k \in 1..Len(attempts) :
               LET a == attempts[k]
               IN  /\ Len(a) \in { 1, 2 }
                   /\ a[1].fmt = FmtShort
                   /\ Split(a[1].arg)[2] \notin DOMAIN month_mapping
                   /\ Split(a[1].arg)[1] = ms[k].date_str[1]
                   /\ Split(a[1].arg)[3] = ms[k].date_str[5]
                   /\ a[1].ok <=> Len(a) = 1
                   /\ Len(a) = 2 => (a[2].fmt = FmtFull /\ a[2].arg = ms[k].date_str)
        /\ pc \in { "loop", "parsed" } =>
               /\ Len(attempts) = idx
               /\ Len(diagnostics) = Cardinality(failed)
               /\ Len(transactions) = idx - Cardinality(failed)
               /\ \A n \in 1..Len(diagnostics) : \E k \in failed : diagnostics[n] = ms[k]
               /\ exception = ""

C10_Witness ==
    /\ pc = "parsed"
    /\ Len(attempts) = 3
    /\ Len(attempts[1]) = 1
    /\ Len(attempts[2]) = 2 /\ ~attempts[2][2].ok
    /\ Len(attempts[3]) = 2 /\ attempts[3][2].ok
    /\ Len(transactions) = 2
    /\ Len(diagnostics) = 1

\* process() returns what extract_metadata and parse_transactions compute
ReturnedAsComputed ==
    pc = "returned" =>
        /\ statement = << RevolutStatement(
                              extract_metadata([meta |-> pdf.meta, blocks |-> pdf.text]),
                              parse_transactions(pdf.text).transactions) >>
        /\ diagnostics = parse_transactions(pdf.text).diagnostics
        /\ attempts = parse_transactions(pdf.text).attempts

====
